---- MODULE Spec2Model ----
(***************************************************************************)
(* Session store (AuthProvider) and API gateway (ApiClient) of the         *)
(* pharmacy dashboard.  localStorage, the provider's React state, the      *)
(* pending initAuth / login / register calls and the request most recently *)
(* handed to fetch are the state; the backend is a black box whose         *)
(* responses are drawn from small sets.                                    *)
(***************************************************************************)
EXTENDS Integers, FiniteSets, Sequences, Bags, TLC

\* ------------------------------------------------------------------ bounds
\* number of login/register calls that may be pending at the same time
MaxCalls == 2

\* number of alerts in a response of GET /alerts/low-stock/
MaxAlerts == 6

\* number of loadAlerts calls that may be pending at the same time
MaxPolls == 2

\* number of sales-by-date fetches that may be pending at the same time
MaxFetches == 2

\* ------------------------------------------------------------ JS values
NULL == "<null>"
ABSENT == "<undefined>"
EMPTY == ""

\* JavaScript truthiness of a string-or-null-or-undefined value
Truthy(v) == v \notin {NULL, ABSENT, EMPTY}

\* credentials, refresh strings and profiles the backend may hand out
Tokens == {"A1", "T1"}
Refreshes == {"R1"}
Users == {"U1", "U2"}

\* localStorage.setItem(key, v): the value is converted to a string, so
\* undefined is stored as the nine-letter string "undefined"
ToStorage(v) == IF v = ABSENT THEN "undefined" ELSE v

\* ------------------------------------------------------------- responses
NETWORK_ERROR == "Network error. Please check your internet connection."

\* response.json() failed (empty or non-JSON body): data = null.  json tells
\* the shape of the parsed value; the list and number fields are read only
\* from a value whose shape has them
NullBody ==
  [json |-> "null", token |-> ABSENT, access |-> ABSENT, refresh |-> ABSENT,
   user |-> ABSENT, profile |-> ABSENT,
   message |-> ABSENT, detail |-> ABSENT, status_code |-> 0,
   sku |-> ABSENT, alerts |-> <<>>, unread_count |-> 0,
   critical_count |-> 0, sales |-> <<>>, total |-> 0]

ObjectBody == [NullBody EXCEPT !.json = "object"]

\* a body as it arrives that is empty or not JSON: response.json() throws
InvalidBody == [NullBody EXCEPT !.json = "invalid"]

\* the value of a property that was never set on an error (undefined)
UndefinedData == [NullBody EXCEPT !.json = "undefined"]
NoStatus == 0

\* bodies of POST /login/
LoginBodies ==
  {NullBody} \cup
  {[ObjectBody EXCEPT !.token = t, !.access = a, !.refresh = r] :
     t \in {ABSENT, "T1"}, a \in {ABSENT, "A1"}, r \in {ABSENT, "R1"}}

\* bodies of POST /register/
RegisterBodies ==
  {NullBody} \cup
  {[ObjectBody EXCEPT !.token = t, !.user = u] :
     t \in {ABSENT, "A1", "T1"}, u \in {ABSENT, "U1", "U2"}}

\* bodies of GET /user/ : the body is the profile itself
UserBodies ==
  {NullBody} \cup {[ObjectBody EXCEPT !.profile = u] : u \in Users}

\* bodies of a non-success response
ErrorBodies ==
  {InvalidBody, NullBody, ObjectBody,
   [ObjectBody EXCEPT !.detail = "Invalid SKU"],
   [ObjectBody EXCEPT !.message = "Bad request", !.status_code = 422],
   [ObjectBody EXCEPT !.message = "Out of stock", !.detail = "Invalid SKU"],
   [ObjectBody EXCEPT !.message = EMPTY, !.detail = "Invalid SKU"]}

\* bodies of a success response to a view's call
DataBodies == {InvalidBody, NullBody, ObjectBody}

\* what fetch delivers: a transport failure, or a status with a body
TransportFailure == [transport |-> "fail", status |-> 0, body |-> NullBody]

Responses(okBodies) ==
  {TransportFailure} \cup
  {[transport |-> "ok", status |-> 200, body |-> b] : b \in okBodies} \cup
  {[transport |-> "ok", status |-> s, body |-> b] :
     s \in {400, 401, 500}, b \in ErrorBodies}

\* the responses the session operations are exercised with: every success
\* body, a transport failure and one rejection by the backend
SessionResponses(okBodies) ==
  {TransportFailure} \cup
  {[transport |-> "ok", status |-> 200, body |-> b] : b \in okBodies} \cup
  {[transport |-> "ok", status |-> 401,
    body |-> [ObjectBody EXCEPT !.detail = "Invalid credentials"]]}

\* response.ok
ResponseOk(resp) == resp.status >= 200 /\ resp.status <= 299

\* a || b || c on strings
OrElse(a, b) == IF Truthy(a) THEN a ELSE b

\* `${response.status}`
StatusText(s) ==
  CASE s = 200 -> "200" [] s = 400 -> "400" [] s = 401 -> "401"
    [] s = 422 -> "422" [] s = 500 -> "500" [] OTHER -> "0"

\* ------------------------------------------------------------- the gateway
NoHeader == ABSENT

\* getHeaders with the wrong authentication scheme
getHeadersBearer(includeAuth, storedAccess) ==
  [ContentType |-> "application/json",
   Authorization |-> IF includeAuth /\ Truthy(storedAccess)
                     THEN "Bearer " \o storedAccess
                     ELSE NoHeader]

\* ApiClient.getHeaders(includeAuth), reading localStorage
getHeaders(includeAuth, storedAccess) ==
  [ContentType |-> "application/json",
   Authorization |-> IF includeAuth /\ Truthy(storedAccess)
                     THEN "Token " \o storedAccess
                     ELSE NoHeader]

\* { ...a, ...b } : a key of b overrides a's, a key missing from b does not
SpreadHeaders(a, b) ==
  [ContentType |-> IF b.ContentType # NoHeader THEN b.ContentType
                   ELSE a.ContentType,
   Authorization |-> IF b.Authorization # NoHeader THEN b.Authorization
                     ELSE a.Authorization]

NoOptionHeaders == [ContentType |-> NoHeader, Authorization |-> NoHeader]

\* the headers ApiClient.request hands to fetch
requestHeaders(optionHeaders, storedAccess) ==
  SpreadHeaders(getHeaders(TRUE, storedAccess), optionHeaders)

\* data after the inner try/catch around response.json(): a body that does
\* not parse gives null
parsedData(resp) == IF resp.body.json = "invalid" THEN NullBody ELSE resp.body

\* an error without the message priority: detail before message
errorMessageDetailFirst(resp) ==
  OrElse(parsedData(resp).detail,
    OrElse(parsedData(resp).message,
      "Request failed with status " \o StatusText(resp.status)))

\* data?.message || data?.detail || `Request failed with status ${status}`
errorMessage(resp) ==
  OrElse(parsedData(resp).message,
    OrElse(parsedData(resp).detail,
      "Request failed with status " \o StatusText(resp.status)))

\* an error that always carries the HTTP status
errorStatusHttp(resp) == resp.status

\* data?.status_code || response.status
errorStatus(resp) ==
  IF parsedData(resp).status_code # 0 THEN parsedData(resp).status_code
  ELSE resp.status

\* a body of request's try block in which a failed parse is not caught
requestTryParseThrows(resp) ==
  IF resp.transport = "fail"
  THEN [settled |-> "rejected", name |-> "TypeError",
        message |-> "Failed to fetch", status |-> NoStatus,
        data |-> UndefinedData]
  ELSE IF resp.body.json = "invalid"
  THEN [settled |-> "rejected", name |-> "SyntaxError",
        message |-> "Unexpected end of JSON input", status |-> NoStatus,
        data |-> UndefinedData]
  ELSE IF ~ResponseOk(resp)
  THEN [settled |-> "rejected", name |-> "Error",
        message |-> errorMessage(resp), status |-> errorStatus(resp),
        data |-> parsedData(resp)]
  ELSE [settled |-> "resolved", name |-> "", message |-> "",
        status |-> NoStatus, data |-> parsedData(resp)]

\* the try block of ApiClient.request: fetch rejects with a TypeError when
\* the transport fails; a non-success status throws an Error carrying
\* message, status and data; otherwise the data is returned
requestTry(resp) ==
  IF resp.transport = "fail"
  THEN [settled |-> "rejected", name |-> "TypeError",
        message |-> "Failed to fetch", status |-> NoStatus,
        data |-> UndefinedData]
  ELSE IF ~ResponseOk(resp)
  THEN [settled |-> "rejected", name |-> "Error",
        message |-> errorMessage(resp), status |-> errorStatus(resp),
        data |-> parsedData(resp)]
  ELSE [settled |-> "resolved", name |-> "", message |-> "",
        status |-> NoStatus, data |-> parsedData(resp)]

\* a catch block that rewrites every error
requestCatchAll(err) ==
  [settled |-> "rejected", name |-> "Error", message |-> NETWORK_ERROR,
   status |-> NoStatus, data |-> UndefinedData]

\* the catch block of ApiClient.request (and of importProductsCSV): a
\* TypeError is replaced by a new Error with the fixed message, anything
\* else is rethrown as it is
requestCatch(err) ==
  IF err.name = "TypeError"
  THEN [settled |-> "rejected", name |-> "Error", message |-> NETWORK_ERROR,
        status |-> NoStatus, data |-> UndefinedData]
  ELSE err

\* the outcome of ApiClient.request for a response delivered by fetch
request(resp) ==
  IF requestTry(resp).settled = "rejected"
  THEN requestCatch(requestTry(resp))
  ELSE requestTry(resp)

\* data?.message || `CSV import failed with status ${response.status}`
importMessage(resp) ==
  OrElse(parsedData(resp).message,
    "CSV import failed with status " \o StatusText(resp.status))

\* the try block of ApiClient.importProductsCSV
importTry(resp) ==
  IF resp.transport = "fail"
  THEN [settled |-> "rejected", name |-> "TypeError",
        message |-> "Failed to fetch", status |-> NoStatus,
        data |-> UndefinedData]
  ELSE IF ~ResponseOk(resp)
  THEN [settled |-> "rejected", name |-> "Error",
        message |-> importMessage(resp), status |-> errorStatus(resp),
        data |-> parsedData(resp)]
  ELSE [settled |-> "resolved", name |-> "", message |-> "",
        status |-> NoStatus, data |-> parsedData(resp)]

\* the outcome of ApiClient.importProductsCSV
importProductsCSV(resp) ==
  IF importTry(resp).settled = "rejected"
  THEN requestCatch(importTry(resp))
  ELSE importTry(resp)

\* the headers importProductsCSV hands to fetch: getHeaders(true) without
\* Content-Type
importHeaders(storedAccess) ==
  [getHeaders(TRUE, storedAccess) EXCEPT !.ContentType = NoHeader]

\* ------------------------------------------------------------------ state
VARIABLES
  lsAccess,      \* localStorage["accessToken"], NULL when the key is absent
  lsRefresh,     \* localStorage["refreshToken"]
  user,          \* useState user
  accessToken,   \* useState accessToken
  refreshToken,  \* useState refreshToken
  loading,       \* useState loading
  initAuth,      \* the initAuth task: its position and its locals
  calls,         \* the bag of pending login / register calls
  during,        \* about the calls now pending: was the store Anonymous when
                 \* the first was made, has another operation overlapped it
  lastRequest,   \* the request most recently handed to fetch
  lastEvent,     \* the call that settled (or ran) most recently
  gw,            \* a call made on the gateway directly: its position, the
                 \* response fetch delivered and what the caller got
  pv,            \* ProductsView with its ProductModal
  bell,          \* NotificationBell
  sv             \* SalesView with its SaleModal

vars == <<lsAccess, lsRefresh, user, accessToken, refreshToken, loading,
          initAuth, calls, during, lastRequest, lastEvent, gw, pv, bell, sv>>

\* the state of the views
views == <<pv, bell, sv>>

\* the persisted keys and the provider's session state, as one record
session ==
  [lsAccess |-> lsAccess, lsRefresh |-> lsRefresh, accessToken |-> accessToken,
   refreshToken |-> refreshToken, user |-> user]

\* value of the context: isAuthenticated: !!accessToken
isAuthenticated == Truthy(accessToken)

NoRequest == [by |-> "none", endpoint |-> "", headers |-> NoOptionHeaders]

\* the step the provider took last: which operation, how it settled for its
\* caller, the credential and profile its response carried, the message of
\* the error it threw or caught, whether the store was Anonymous when the
\* call was made, whether it overlapped another call, and the step before it
\* a step that handled no response body
NoResponse == [NullBody EXCEPT !.json = "none"]

NoEvent ==
  [op |-> "none", settled |-> "", cred |-> ABSENT, usr |-> ABSENT,
   error |-> "", anon |-> FALSE, overlapped |-> FALSE, after |-> "",
   response |-> NoResponse]

Event(op, settled, cred, usr, error, anon, overlapped) ==
  [op |-> op, settled |-> settled, cred |-> cred, usr |-> usr,
   error |-> error, anon |-> anon, overlapped |-> overlapped, after |-> "",
   response |-> NoResponse]

\* the step in which login or register stored what its response carried
EventStored(op, settled, cred, usr, response) ==
  [Event(op, settled, cred, usr, "", during.anon, during.overlapped) EXCEPT
     !.response = response]

\* the same for a step that returns at once (logout, a view's request),
\* remembering the step it follows
EventAfter(op, settled) ==
  [Event(op, settled, ABSENT, ABSENT, "", FALSE, FALSE) EXCEPT
     !.after = lastEvent.op \o ":" \o lastEvent.settled]

\* a pending call: the operation, the await it is suspended at and the
\* credential it took from its response
Call(op, pc, cred) == [op |-> op, pc |-> pc, cred |-> cred]

PendingCalls == BagToSet(calls)
NumPending == BagCardinality(calls)
AnyPending == NumPending > 0

\* the Session Store's state Anonymous
Anonymous ==
  /\ ~loading
  /\ ~isAuthenticated
  /\ ~Truthy(user)
  /\ ~Truthy(lsAccess)

Quiet == [anon |-> FALSE, overlapped |-> FALSE]

\* a call is made: alone it starts a new period, otherwise it overlaps
Invoke == IF AnyPending THEN [during EXCEPT !.overlapped = TRUE]
          ELSE [anon |-> Anonymous, overlapped |-> FALSE]

\* a call settles: the period ends with the last pending call
Settle(c) == IF NumPending = 1 THEN Quiet ELSE during

\* contents localStorage can have when the page is loaded: whatever an
\* earlier run of the provider left there
StoredPairs ==
  {<<NULL, NULL>>} \cup
  {<<a, r>> : a \in Tokens \cup {"undefined"}, r \in {NULL} \cup Refreshes}

\* a view that is not mounted
NoProductsView == [mounted |-> FALSE]
NoBell == [mounted |-> FALSE]
NoSalesView == [mounted |-> FALSE]

\* no call made on the gateway yet
NoGw ==
  [pc |-> "idle", op |-> "", resp |-> TransportFailure,
   out |-> [settled |-> "", name |-> "", message |-> "", status |-> NoStatus,
            data |-> UndefinedData]]

Init ==
  /\ \E p \in StoredPairs :
       /\ lsAccess = p[1]
       /\ lsRefresh = p[2]
       /\ accessToken = p[1]
       /\ refreshToken = p[2]
  /\ user = NULL
  /\ loading = TRUE
  /\ initAuth = [pc |-> "start", storedAccessToken |-> ABSENT,
                 storedRefreshToken |-> ABSENT]
  /\ calls = EmptyBag
  /\ during = Quiet
  /\ gw = NoGw
  /\ pv = NoProductsView
  /\ bell = NoBell
  /\ sv = NoSalesView
  /\ lastRequest = NoRequest
  /\ lastEvent = NoEvent

\* setUser(userData) for the data request() resolved with
ProfileOf(data) == IF data.json = "null" THEN NULL ELSE data.profile

\* --------------------------------------------------------------- initAuth
\* initAuth asking for the profile whatever storage holds
hasStoredCredentialAlways(stored) == TRUE

\* if (storedAccessToken)
hasStoredCredential(stored) == Truthy(stored)

\* a catch block that clears the state but leaves the refresh key in storage
initAuthCatchKeepsRefresh(s) ==
  [s EXCEPT !.lsAccess = NULL, !.accessToken = NULL,
            !.refreshToken = NULL, !.user = NULL]

\* the catch block of initAuth, applied to the session s
initAuthCatch(s) ==
  [s EXCEPT !.lsAccess = NULL, !.lsRefresh = NULL, !.accessToken = NULL,
            !.refreshToken = NULL, !.user = NULL]

\* the effect runs: read storage; without a credential finish at once,
\* with one install it and ask for the profile
InitAuthStart ==
  /\ initAuth.pc = "start"
  /\ IF hasStoredCredential(lsAccess)
     THEN /\ accessToken' = lsAccess
          /\ refreshToken' = IF Truthy(lsRefresh) THEN lsRefresh ELSE refreshToken
          /\ initAuth' = [pc |-> "awaitUser", storedAccessToken |-> lsAccess,
                          storedRefreshToken |-> lsRefresh]
          /\ lastRequest' = [by |-> "initAuth", endpoint |-> "/user/",
                             headers |-> requestHeaders(NoOptionHeaders, lsAccess)]
          /\ lastEvent' = Event("initAuth", "pending", ABSENT, ABSENT, "", FALSE, FALSE)
          /\ UNCHANGED loading
     ELSE /\ initAuth' = [pc |-> "done", storedAccessToken |-> lsAccess,
                          storedRefreshToken |-> lsRefresh]
          /\ loading' = FALSE
          /\ lastEvent' = Event("initAuth", "resolved", ABSENT, ABSENT, "",
                                FALSE, FALSE)
          /\ UNCHANGED <<accessToken, refreshToken, lastRequest>>
  /\ UNCHANGED <<gw, views, lsAccess, lsRefresh, user, calls, during>>

\* an initAuth that never reaches setLoading(false) after its request
InitAuthUserKeepsLoading ==
  /\ initAuth.pc = "awaitUser"
  /\ \E resp \in SessionResponses(UserBodies) :
       LET out == request(resp) IN
       IF out.settled = "resolved"
       THEN /\ user' = ProfileOf(out.data)
            /\ lastEvent' = Event("initAuth", "resolved", ABSENT,
                                  ProfileOf(out.data), "", FALSE, FALSE)
            /\ UNCHANGED <<lsAccess, lsRefresh, accessToken, refreshToken>>
       ELSE /\ lsAccess' = initAuthCatch(session).lsAccess
            /\ lsRefresh' = initAuthCatch(session).lsRefresh
            /\ accessToken' = initAuthCatch(session).accessToken
            /\ refreshToken' = initAuthCatch(session).refreshToken
            /\ user' = initAuthCatch(session).user
            /\ lastEvent' = Event("initAuth", "resolved", ABSENT, ABSENT,
                                  out.message, FALSE, FALSE)
  /\ initAuth' = [initAuth EXCEPT !.pc = "done"]
  /\ UNCHANGED <<gw, views, loading, calls, during, lastRequest>>

\* the profile request of initAuth settles
InitAuthUser ==
  /\ initAuth.pc = "awaitUser"
  /\ \E resp \in SessionResponses(UserBodies) :
       LET out == request(resp) IN
       IF out.settled = "resolved"
       THEN /\ user' = ProfileOf(out.data)
            /\ lastEvent' = Event("initAuth", "resolved", ABSENT,
                                  ProfileOf(out.data), "", FALSE, FALSE)
            /\ UNCHANGED <<lsAccess, lsRefresh, accessToken, refreshToken>>
       ELSE /\ lsAccess' = initAuthCatch(session).lsAccess
            /\ lsRefresh' = initAuthCatch(session).lsRefresh
            /\ accessToken' = initAuthCatch(session).accessToken
            /\ refreshToken' = initAuthCatch(session).refreshToken
            /\ user' = initAuthCatch(session).user
            /\ lastEvent' = Event("initAuth", "resolved", ABSENT, ABSENT,
                                  out.message, FALSE, FALSE)
  /\ loading' = FALSE
  /\ initAuth' = [initAuth EXCEPT !.pc = "done"]
  /\ UNCHANGED <<gw, views, calls, during, lastRequest>>

\* ------------------------------------------------------------------ login
\* the credential login takes from the response of POST /login/
loginCredential(response) ==
  IF response.json # "object" THEN ABSENT
  ELSE IF Truthy(response.token) THEN response.token
  ELSE IF Truthy(response.access) THEN response.access
  ELSE ABSENT

\* a login that forgets the refresh string
loginRefreshNever(response) == ABSENT

\* the refresh string login stores with it
loginRefresh(response) ==
  IF /\ response.json = "object"
     /\ ~Truthy(response.token)
     /\ Truthy(response.access)
     /\ Truthy(response.refresh)
  THEN response.refresh
  ELSE ABSENT

\* login(username, password) is called: POST /login/ is handed to fetch
LoginCall ==
  /\ ~loading
  /\ NumPending < MaxCalls
  /\ lastRequest' = [by |-> "login", endpoint |-> "/login/",
                     headers |-> requestHeaders(getHeaders(FALSE, lsAccess),
                                                lsAccess)]
  /\ calls' = calls (+) SetToBag({Call("login", "awaitLogin", ABSENT)})
  /\ during' = Invoke
  /\ lastEvent' = Event("login", "pending", ABSENT, ABSENT, "", FALSE, FALSE)
  /\ UNCHANGED <<gw, views, lsAccess, lsRefresh, user, accessToken, refreshToken,
                 loading, initAuth>>

\* POST /login/ settles: on failure login rejects; otherwise the credential
\* is stored and GET /user/ is handed to fetch
LoginResponse ==
  \E c \in PendingCalls, resp \in SessionResponses(LoginBodies) :
    LET out == request(resp)
        cred == loginCredential(out.data)
        refr == loginRefresh(out.data)
        stored == IF Truthy(cred) THEN ToStorage(cred) ELSE lsAccess
    IN
    /\ c.op = "login"
    /\ c.pc = "awaitLogin"
    /\ IF out.settled = "rejected"
       THEN /\ calls' = calls (-) SetToBag({c})
            /\ during' = Settle(c)
            /\ lastEvent' = Event("login", "rejected", ABSENT, ABSENT,
                                  out.message, during.anon, during.overlapped)
            /\ UNCHANGED <<lsAccess, lsRefresh, accessToken, refreshToken,
                           lastRequest>>
       ELSE /\ lsAccess' = stored
            /\ accessToken' = IF Truthy(cred) THEN cred ELSE accessToken
            /\ lsRefresh' = IF Truthy(refr) THEN ToStorage(refr) ELSE lsRefresh
            /\ refreshToken' = IF Truthy(refr) THEN refr ELSE refreshToken
            /\ lastRequest' = [by |-> "login", endpoint |-> "/user/",
                               headers |-> requestHeaders(NoOptionHeaders, stored)]
            /\ calls' = (calls (-) SetToBag({c}))
                           (+) SetToBag({Call("login", "awaitUser", cred)})
            /\ lastEvent' = EventStored("login", "fetching", cred, ABSENT,
                                        out.data)
            /\ UNCHANGED during
    /\ UNCHANGED <<gw, views, user, loading, initAuth>>

\* GET /user/ of a login settles: setUser and resolve, or reject
LoginUser ==
  \E c \in PendingCalls, resp \in SessionResponses(UserBodies) :
    LET out == request(resp) IN
    /\ c.op = "login"
    /\ c.pc = "awaitUser"
    /\ IF out.settled = "rejected"
       THEN /\ lastEvent' = Event("login", "rejected", c.cred, ABSENT,
                                  out.message, during.anon, during.overlapped)
            /\ UNCHANGED user
       ELSE /\ user' = ProfileOf(out.data)
            /\ lastEvent' = Event("login", "resolved", c.cred,
                                  ProfileOf(out.data), "", during.anon,
                                  during.overlapped)
    /\ calls' = calls (-) SetToBag({c})
    /\ during' = Settle(c)
    /\ UNCHANGED <<gw, views, lsAccess, lsRefresh, accessToken, refreshToken, loading,
                   initAuth, lastRequest>>

\* --------------------------------------------------------------- register
\* register dropping the profile of the response
registerProfileDropped(response) == NULL

\* setUser(response.user)
registerProfile(response) == response.user

\* register(username, email, password) is called
RegisterCall ==
  /\ ~loading
  /\ NumPending < MaxCalls
  /\ lastRequest' = [by |-> "register", endpoint |-> "/register/",
                     headers |-> requestHeaders(getHeaders(FALSE, lsAccess),
                                                lsAccess)]
  /\ calls' = calls (+) SetToBag({Call("register", "awaitRegister", ABSENT)})
  /\ during' = Invoke
  /\ lastEvent' = Event("register", "pending", ABSENT, ABSENT, "", FALSE, FALSE)
  /\ UNCHANGED <<gw, views, lsAccess, lsRefresh, user, accessToken, refreshToken,
                 loading, initAuth>>

\* POST /register/ settles: reject, or store response.token and install
\* response.user; reading .token of a null response throws a TypeError
RegisterResponse ==
  \E c \in PendingCalls, resp \in SessionResponses(RegisterBodies) :
    LET out == request(resp) IN
    /\ c.op = "register"
    /\ c.pc = "awaitRegister"
    /\ IF out.settled = "rejected"
       THEN /\ lastEvent' = Event("register", "rejected", ABSENT, ABSENT,
                                  out.message, during.anon, during.overlapped)
            /\ UNCHANGED <<lsAccess, accessToken, user>>
       ELSE IF out.data.json = "null"
       THEN /\ lastEvent' = Event("register", "rejected", ABSENT, ABSENT,
                                  "TypeError", during.anon, during.overlapped)
            /\ UNCHANGED <<lsAccess, accessToken, user>>
       ELSE /\ lsAccess' = ToStorage(out.data.token)
            /\ accessToken' = out.data.token
            /\ user' = registerProfile(out.data)
            /\ lastEvent' = EventStored("register", "resolved",
                                        out.data.token, out.data.user,
                                        out.data)
    /\ calls' = calls (-) SetToBag({c})
    /\ during' = Settle(c)
    /\ UNCHANGED <<gw, views, lsRefresh, refreshToken, loading, initAuth, lastRequest>>

\* ----------------------------------------------------------------- logout
\* a logout that forgets the refresh key
logoutStateKeepsRefresh(s) ==
  [s EXCEPT !.lsAccess = NULL, !.accessToken = NULL,
            !.refreshToken = NULL, !.user = NULL]

\* the body of logout, applied to the session s
logoutState(s) ==
  [s EXCEPT !.lsAccess = NULL, !.lsRefresh = NULL, !.accessToken = NULL,
            !.refreshToken = NULL, !.user = NULL]

\* a logout that tells the backend
LogoutWithRequest ==
  /\ ~loading
  /\ lsAccess' = NULL
  /\ lsRefresh' = NULL
  /\ accessToken' = NULL
  /\ refreshToken' = NULL
  /\ user' = NULL
  /\ during' = IF AnyPending THEN [during EXCEPT !.overlapped = TRUE] ELSE during
  /\ lastRequest' = [by |-> "logout", endpoint |-> "/logout/",
                     headers |-> requestHeaders(NoOptionHeaders, lsAccess)]
  /\ lastEvent' = EventAfter("logout", "returned")
  /\ UNCHANGED <<gw, views, calls, loading, initAuth>>

\* logout()
Logout ==
  /\ ~loading
  /\ lsAccess' = logoutState(session).lsAccess
  /\ lsRefresh' = logoutState(session).lsRefresh
  /\ accessToken' = logoutState(session).accessToken
  /\ refreshToken' = logoutState(session).refreshToken
  /\ user' = logoutState(session).user
  /\ during' = IF AnyPending THEN [during EXCEPT !.overlapped = TRUE] ELSE during
  /\ UNCHANGED calls
  /\ lastEvent' = EventAfter("logout", "returned")
  /\ UNCHANGED <<gw, views, loading, initAuth, lastRequest>>

\* ------------------------------------------------------- other gateway use
\* a view calls a gateway operation that goes through request() with the
\* default headers (getProducts, getSales, ...)
GatewayCall ==
  /\ ~loading
  /\ lastRequest' = [by |-> "view", endpoint |-> "/products/",
                     headers |-> requestHeaders(NoOptionHeaders, lsAccess)]
  /\ lastEvent' = EventAfter("gateway", "pending")
  /\ UNCHANGED <<gw, views, lsAccess, lsRefresh, user, accessToken, refreshToken,
                 loading, initAuth, calls, during>>

Next ==
  \/ InitAuthStart
  \/ InitAuthUser
  \/ LoginCall
  \/ LoginResponse
  \/ LoginUser
  \/ RegisterCall
  \/ RegisterResponse
  \/ Logout
  \/ GatewayCall

Spec == Init /\ [][Next]_vars

\* the provider when login is the only operation its consumers invoke
NextLogins ==
  \/ InitAuthStart
  \/ InitAuthUser
  \/ LoginCall
  \/ LoginResponse
  \/ LoginUser

SpecLogins == Init /\ [][NextLogins]_vars

\* ------------------------------------------------- the gateway on its own
\* the methods of ApiClient a caller may invoke
GatewayOps == {"login", "register", "getUser", "getProducts",
               "importProductsCSV"}

Endpoint(op) ==
  CASE op = "login" -> "/login/"
    [] op = "register" -> "/register/"
    [] op = "getUser" -> "/user/"
    [] op = "getProducts" -> "/products/"
    [] OTHER -> "/products/import_csv/"

\* the headers the method hands to fetch
GatewayHeaders(op, storedAccess) ==
  CASE op \in {"login", "register"} ->
         requestHeaders(getHeaders(FALSE, storedAccess), storedAccess)
    [] op = "importProductsCSV" -> importHeaders(storedAccess)
    [] OTHER -> requestHeaders(NoOptionHeaders, storedAccess)

\* what the method's caller gets for a response
GatewayOutcome(op, resp) ==
  IF op = "importProductsCSV" THEN importProductsCSV(resp) ELSE request(resp)

\* a method of the gateway is called: the request is handed to fetch
GwCall ==
  /\ gw.pc # "pending"
  /\ \E op \in GatewayOps :
       /\ gw' = [NoGw EXCEPT !.pc = "pending", !.op = op]
       /\ lastRequest' = [by |-> "gateway", endpoint |-> Endpoint(op),
                          headers |-> GatewayHeaders(op, lsAccess)]
  /\ UNCHANGED <<lsAccess, lsRefresh, user, accessToken, refreshToken,
                 loading, initAuth, calls, during, lastEvent, views>>

\* a settlement that drops the persisted credential on a 401
GwSettleClears401 ==
  /\ gw.pc = "pending"
  /\ \E resp \in Responses(DataBodies) :
       /\ gw' = [gw EXCEPT !.pc = "settled", !.resp = resp,
                           !.out = GatewayOutcome(gw.op, resp)]
       /\ lsAccess' = IF resp.transport = "ok" /\ resp.status = 401
                      THEN NULL ELSE lsAccess
  /\ UNCHANGED <<lsRefresh, user, accessToken, refreshToken,
                 loading, initAuth, calls, during, lastRequest, lastEvent,
                 views>>

\* fetch settles and the method returns to its caller or throws
GwSettle ==
  /\ gw.pc = "pending"
  /\ \E resp \in Responses(DataBodies) :
       gw' = [gw EXCEPT !.pc = "settled", !.resp = resp,
                        !.out = GatewayOutcome(gw.op, resp)]
  /\ UNCHANGED <<lsAccess, lsRefresh, user, accessToken, refreshToken,
                 loading, initAuth, calls, during, lastRequest, lastEvent,
                 views>>

NextGateway ==
  \/ GwCall
  \/ GwSettle

SpecGateway == Init /\ [][NextGateway]_vars

\* ------------------------------------------------------------- the views
\* the session after a restore that succeeded: the views are rendered by
\* the Dashboard, which App shows when isAuthenticated
SignedIn ==
  /\ lsAccess = "A1"
  /\ lsRefresh = NULL
  /\ accessToken = "A1"
  /\ refreshToken = NULL
  /\ user = "U1"
  /\ loading = FALSE
  /\ initAuth = [pc |-> "done", storedAccessToken |-> "A1",
                 storedRefreshToken |-> NULL]
  /\ calls = EmptyBag
  /\ during = Quiet
  /\ lastRequest = [by |-> "initAuth", endpoint |-> "/user/",
                    headers |-> requestHeaders(NoOptionHeaders, "A1")]
  /\ lastEvent = Event("initAuth", "resolved", ABSENT, "U1", "", FALSE, FALSE)
  /\ gw = NoGw

\* a request a view hands to fetch through request()
ViewRequest(endpoint) ==
  [by |-> "view", endpoint |-> endpoint,
   headers |-> requestHeaders(NoOptionHeaders, lsAccess)]

\* the session is left alone by the views
SessionUnchanged ==
  UNCHANGED <<lsAccess, lsRefresh, user, accessToken, refreshToken, loading,
              initAuth, calls, during, lastEvent, gw>>

\* ----------------------------------------------- ProductsView, ProductModal
\* a product list the backend may return
ProductLists == {[ObjectBody EXCEPT !.json = "list:1"],
                 [ObjectBody EXCEPT !.json = "list:2"]}

\* what GET /products/ may answer
ProductListResponses ==
  {TransportFailure} \cup
  {[transport |-> "ok", status |-> 200, body |-> b] : b \in ProductLists} \cup
  {[transport |-> "ok", status |-> 500, body |-> InvalidBody]}

\* what POST /products/ and PATCH /products/{id}/ may answer: the saved
\* product, field errors of the serializer, another rejection, or nothing
SaveResponses ==
  {TransportFailure,
   [transport |-> "ok", status |-> 201, body |-> ObjectBody],
   [transport |-> "ok", status |-> 400,
    body |-> [ObjectBody EXCEPT !.sku = "SKU already exists"]],
   [transport |-> "ok", status |-> 400,
    body |-> [ObjectBody EXCEPT !.detail = "Invalid SKU"]],
   [transport |-> "ok", status |-> 500, body |-> InvalidBody]}

NoOutcome ==
  [settled |-> "", name |-> "", message |-> "", status |-> NoStatus,
   data |-> UndefinedData]

\* the state of a ProductModal that has just been mounted
NewProductModal == [loading |-> FALSE, error |-> NULL]

\* ProductsView after its first render: loadProducts is in flight
MountedProductsView ==
  [mounted |-> TRUE, loading |-> TRUE, products |-> ABSENT,
   showModal |-> FALSE, editingProduct |-> NULL, toast |-> NULL,
   pc |-> "mountLoad", modal |-> NewProductModal, lastSave |-> NoOutcome]

InitProducts ==
  /\ SignedIn
  /\ pv = MountedProductsView
  /\ bell = NoBell
  /\ sv = NoSalesView

\* loadProducts after its await: setProducts or the error toast, then
\* setLoading(false); it never rethrows
loadProducts(view, out) ==
  IF out.settled = "resolved"
  THEN [view EXCEPT !.products = out.data.json, !.loading = FALSE]
  ELSE [view EXCEPT !.toast = "Failed to load products", !.loading = FALSE]

\* the load of the mount effect settles
ProductsLoaded ==
  /\ pv.pc = "mountLoad"
  /\ \E resp \in ProductListResponses :
       pv' = [loadProducts(pv, request(resp)) EXCEPT !.pc = "idle"]
  /\ UNCHANGED <<lastRequest, bell, sv>>
  /\ SessionUnchanged

\* "Add Product" or the edit button of a row
OpenProductModal ==
  /\ ~pv.loading
  /\ ~pv.showModal
  /\ pv.pc = "idle"
  /\ \E p \in {NULL, "P1"} :
       pv' = [pv EXCEPT !.showModal = TRUE, !.editingProduct = p,
                        !.modal = NewProductModal]
  /\ UNCHANGED <<lastRequest, bell, sv>>
  /\ SessionUnchanged

\* the modal's Cancel button: onClose
CloseProductModal ==
  /\ pv.showModal
  /\ pv' = [pv EXCEPT !.showModal = FALSE, !.editingProduct = NULL]
  /\ UNCHANGED <<lastRequest, bell, sv>>
  /\ SessionUnchanged

\* the toast's onClose
DismissProductToast ==
  /\ pv.mounted
  /\ pv.toast # NULL
  /\ pv' = [pv EXCEPT !.toast = NULL]
  /\ UNCHANGED <<lastRequest, bell, sv>>
  /\ SessionUnchanged

\* ProductModal.handleSubmit up to the await in handleSaveProduct
SubmitProduct ==
  /\ pv.showModal
  /\ ~pv.modal.loading
  /\ pv.pc = "idle"
  /\ pv' = [pv EXCEPT !.modal = [loading |-> TRUE, error |-> NULL],
                      !.pc = "awaitSave"]
  /\ lastRequest' = ViewRequest(IF pv.editingProduct = NULL THEN "/products/"
                                ELSE "/products/{id}/")
  /\ UNCHANGED <<bell, sv>>
  /\ SessionUnchanged

\* what error.response evaluates to for an error thrown by the gateway:
\* the gateway sets message, status and data, never response
errorResponse(err) == ABSENT

\* the catch block of ProductModal.handleSubmit
handleSubmitCatch(err) ==
  IF errorResponse(err) # ABSENT
  THEN IF Truthy(err.data.sku)
       THEN IF err.data.sku = "SKU already exists"
            THEN "This SKU is already in use. We've generated a new one"
            ELSE "SKU Error: " \o err.data.sku
       ELSE "Validation error occurred"
  ELSE OrElse(err.message, "Failed to save product")

\* how the promise of handleSaveProduct settles when the save request was
\* rejected: the catch block shows a toast and does not rethrow
handleSaveProductCatch(out) == "resolved"

\* the rest of ProductModal.handleSubmit once onSave has settled: onClose()
\* or the catch block, then setLoading(false); its state is set only while
\* it is still mounted
handleSubmitRest(view, onSave, err) ==
  IF onSave = "resolved"
  THEN [view EXCEPT !.showModal = FALSE, !.editingProduct = NULL,
                    !.modal = NewProductModal]
  ELSE IF view.showModal
  THEN [view EXCEPT !.modal = [loading |-> FALSE,
                               error |-> handleSubmitCatch(err)]]
  ELSE view

\* the save request settles: on failure the toast, and the modal continues;
\* on success the toast, and loadProducts is called
SaveProductResponse ==
  /\ pv.pc = "awaitSave"
  /\ \E resp \in SaveResponses :
       LET out == request(resp) IN
       IF out.settled = "rejected"
       THEN /\ pv' = [handleSubmitRest(
                        [pv EXCEPT !.toast = "Failed to save product"],
                        handleSaveProductCatch(out), out)
                      EXCEPT !.pc = "idle", !.lastSave = out]
            /\ UNCHANGED lastRequest
       ELSE /\ pv' = [pv EXCEPT
                        !.toast = IF pv.editingProduct # NULL
                                  THEN "Product updated successfully"
                                  ELSE "Product created successfully",
                        !.pc = "awaitLoad", !.lastSave = out]
            /\ lastRequest' = ViewRequest("/products/")
  /\ UNCHANGED <<bell, sv>>
  /\ SessionUnchanged

\* the reload after a save settles: setShowModal(false),
\* setEditingProduct(null), and the modal continues
SaveProductReloaded ==
  /\ pv.pc = "awaitLoad"
  /\ \E resp \in ProductListResponses :
       pv' = [handleSubmitRest(
                [loadProducts(pv, request(resp)) EXCEPT
                   !.showModal = FALSE, !.editingProduct = NULL],
                "resolved", NoOutcome)
              EXCEPT !.pc = "idle"]
  /\ UNCHANGED <<lastRequest, bell, sv>>
  /\ SessionUnchanged

NextProducts ==
  \/ ProductsLoaded
  \/ OpenProductModal
  \/ CloseProductModal
  \/ DismissProductToast
  \/ SubmitProduct
  \/ SaveProductResponse
  \/ SaveProductReloaded

SpecProducts == InitProducts /\ [][NextProducts]_vars

\* --------------------------------------------------------- NotificationBell
\* Array.prototype.slice(start, end) for 0 <= start <= end
slice(a, start, end) ==
  IF start >= Len(a) THEN <<>>
  ELSE SubSeq(a, start + 1, IF end < Len(a) THEN end ELSE Len(a))

\* alert lists the backend may return: ids counting up or down
AlertLists ==
  {[i \in 1..n |-> i] : n \in 0..MaxAlerts} \cup
  {[i \in 1..n |-> MaxAlerts + 1 - i] : n \in 1..MaxAlerts}

\* an AlertsResponse
AlertBodies ==
  {[ObjectBody EXCEPT !.json = "alerts", !.alerts = l, !.unread_count = u,
                      !.critical_count = c] :
     l \in AlertLists, u \in {0, 3}, c \in {0, 1}}

\* what GET /alerts/low-stock/ may answer: an AlertsResponse, an object
\* without alerts, an empty body, a rejection, or nothing
AlertResponses ==
  {TransportFailure} \cup
  {[transport |-> "ok", status |-> 200, body |-> b] :
     b \in AlertBodies \cup {ObjectBody, InvalidBody}} \cup
  {[transport |-> "ok", status |-> 500,
    body |-> [ObjectBody EXCEPT !.detail = "Server error"]]}

\* what POST /alerts/acknowledge/ may answer
AcknowledgeResponses ==
  {TransportFailure,
   [transport |-> "ok", status |-> 200, body |-> ObjectBody],
   [transport |-> "ok", status |-> 500, body |-> InvalidBody]}

\* NotificationBell after its first render: the first loadAlerts in flight
MountedBell ==
  [mounted |-> TRUE, alerts |-> <<>>, unreadCount |-> 0, criticalCount |-> 0,
   loads |-> 1, acks |-> 0, lastLoaded |-> NoResponse, lastPoll |-> ""]

InitBell ==
  /\ SignedIn
  /\ pv = NoProductsView
  /\ bell = MountedBell
  /\ sv = NoSalesView

\* data.alerts.slice(0, 5) throws a TypeError when data is null or has no
\* alerts
alertsLoaded(out) == out.settled = "resolved" /\ out.data.json = "alerts"

\* a bell that shows every alert of the response
shownAlertsAll(data) == data.alerts

\* data.alerts.slice(0, 5)
shownAlerts(data) == slice(data.alerts, 0, 5)

\* the interval fires: loadAlerts up to its await
PollAlerts ==
  /\ bell.mounted
  /\ bell.loads + bell.acks < MaxPolls
  /\ bell' = [bell EXCEPT !.loads = @ + 1, !.lastPoll = "pending"]
  /\ lastRequest' = ViewRequest("/alerts/low-stock/")
  /\ UNCHANGED <<pv, sv>>
  /\ SessionUnchanged

\* loadAlerts after its await: the three setters, or the catch block
AlertsResponse ==
  /\ bell.mounted
  /\ bell.loads > 0
  /\ \E resp \in AlertResponses :
       LET out == request(resp) IN
       IF alertsLoaded(out)
       THEN bell' = [bell EXCEPT !.alerts = shownAlerts(out.data),
                                 !.unreadCount = out.data.unread_count,
                                 !.criticalCount = out.data.critical_count,
                                 !.loads = @ - 1,
                                 !.lastLoaded = out.data,
                                 !.lastPoll = "loaded"]
       ELSE bell' = [bell EXCEPT !.loads = @ - 1, !.lastPoll = "failed"]
  /\ UNCHANGED <<lastRequest, pv, sv>>
  /\ SessionUnchanged

\* the check button of a displayed alert: handleAcknowledge up to its await
AcknowledgeAlert ==
  /\ bell.mounted
  /\ Len(bell.alerts) > 0
  /\ bell.loads + bell.acks < MaxPolls
  /\ bell' = [bell EXCEPT !.acks = @ + 1, !.lastPoll = "pending"]
  /\ lastRequest' = ViewRequest("/alerts/acknowledge/")
  /\ UNCHANGED <<pv, sv>>
  /\ SessionUnchanged

\* handleAcknowledge after its first await: loadAlerts, or the catch block
AcknowledgeResponse ==
  /\ bell.mounted
  /\ bell.acks > 0
  /\ \E resp \in AcknowledgeResponses :
       IF request(resp).settled = "resolved"
       THEN /\ bell' = [bell EXCEPT !.acks = @ - 1, !.loads = @ + 1,
                                    !.lastPoll = "pending"]
            /\ lastRequest' = ViewRequest("/alerts/low-stock/")
       ELSE /\ bell' = [bell EXCEPT !.acks = @ - 1, !.lastPoll = "failed"]
            /\ UNCHANGED lastRequest
  /\ UNCHANGED <<pv, sv>>
  /\ SessionUnchanged

NextBell ==
  \/ PollAlerts
  \/ AlertsResponse
  \/ AcknowledgeAlert
  \/ AcknowledgeResponse

SpecBell == InitBell /\ [][NextBell]_vars

\* ------------------------------------------------------ SalesView, SaleModal
\* the days the user can select; the view starts on the first (today)
Dates == {1, 2}

\* what the backend may return as the sales of a day
SalesBodies(d) ==
  {[ObjectBody EXCEPT !.json = "sales", !.sales = l, !.total = 100 * d] :
     l \in {<<d>>, <<d, d + 10>>}}

\* what GET /sales/by_date/?date=d may answer
SalesResponses(d) ==
  {TransportFailure} \cup
  {[transport |-> "ok", status |-> 200, body |-> b] :
     b \in SalesBodies(d) \cup {InvalidBody}} \cup
  {[transport |-> "ok", status |-> 500, body |-> InvalidBody]}

\* what POST /sales/ may answer
CreateSaleResponses ==
  {TransportFailure,
   [transport |-> "ok", status |-> 201, body |-> ObjectBody],
   [transport |-> "ok", status |-> 400,
    body |-> [ObjectBody EXCEPT !.detail = "Insufficient stock"]]}

\* how the two requests of fetchInitial may end together (Promise.all)
InitialOutcomes == {"resolved", "rejected"}

\* a SaleModal that has just been mounted: one item without a product
NewSaleModal == [loading |-> FALSE, items |-> "no product"]

\* SalesView after its first render: fetchInitial and fetchSales for the
\* first day are in flight
MountedSalesView ==
  [mounted |-> TRUE, sales |-> <<>>, total |-> 0, shownFor |-> 0,
   loading |-> TRUE, showModal |-> FALSE, toast |-> NULL,
   selectedDate |-> 1, initial |-> TRUE, fetches |-> SetToBag({1}),
   pc |-> "idle", modal |-> NewSaleModal, lastCreate |-> "",
   lastSubmit |-> ""]

InitSales ==
  /\ SignedIn
  /\ pv = NoProductsView
  /\ bell = NoBell
  /\ sv = MountedSalesView

\* some request of the view is in flight; a sales-by-date fetch is
SalesFetchInFlight == BagCardinality(sv.fetches) > 0
AnyFetchInFlight == sv.initial \/ SalesFetchInFlight

\* the sales request resolved with an object (reading .sales of null throws)
salesLoaded(out) == out.settled = "resolved" /\ out.data.json = "sales"

\* fetchInitial after its await
InitialLoaded ==
  /\ sv.mounted
  /\ sv.initial
  /\ \E o \in InitialOutcomes :
       sv' = [sv EXCEPT !.initial = FALSE, !.loading = FALSE,
                        !.toast = IF o = "resolved" THEN sv.toast
                                  ELSE "Failed to load sale dates/products"]
  /\ UNCHANGED <<lastRequest, pv, bell>>
  /\ SessionUnchanged

\* Today, Yesterday or the date picker: setSelectedDate, and the effect
\* runs fetchSales up to its await
SelectDate ==
  /\ sv.mounted
  /\ ~sv.loading
  /\ ~sv.showModal
  /\ BagCardinality(sv.fetches) < MaxFetches
  /\ \E d \in Dates :
       sv' = [sv EXCEPT !.selectedDate = d, !.loading = TRUE,
                        !.fetches = @ (+) SetToBag({d})]
  /\ lastRequest' = ViewRequest("/sales/by_date/?date=")
  /\ UNCHANGED <<pv, bell>>
  /\ SessionUnchanged

\* fetchSales after its await, for the day it was started with
SalesLoaded ==
  /\ sv.mounted
  /\ \E d \in BagToSet(sv.fetches) : \E resp \in SalesResponses(d) :
       LET out == request(resp) IN
       IF salesLoaded(out)
       THEN sv' = [sv EXCEPT !.sales = out.data.sales,
                             !.total = out.data.total,
                             !.shownFor = d, !.loading = FALSE,
                             !.fetches = @ (-) SetToBag({d})]
       ELSE sv' = [sv EXCEPT !.toast = "Failed to load sales",
                             !.sales = <<>>, !.total = 0,
                             !.shownFor = d, !.loading = FALSE,
                             !.fetches = @ (-) SetToBag({d})]
  /\ UNCHANGED <<lastRequest, pv, bell>>
  /\ SessionUnchanged

\* the "New Sale" button
OpenSaleModal ==
  /\ sv.mounted
  /\ ~sv.loading
  /\ ~sv.showModal
  /\ sv.pc = "idle"
  /\ sv' = [sv EXCEPT !.showModal = TRUE, !.modal = NewSaleModal]
  /\ UNCHANGED <<lastRequest, pv, bell>>
  /\ SessionUnchanged

\* the user selects a product for an item of the sale
SelectSaleProduct ==
  /\ sv.mounted
  /\ sv.showModal
  /\ sv.modal.items = "no product"
  /\ sv' = [sv EXCEPT !.modal.items = "product selected"]
  /\ UNCHANGED <<lastRequest, pv, bell>>
  /\ SessionUnchanged

\* the modal's Cancel button: onClose
CloseSaleModal ==
  /\ sv.mounted
  /\ sv.showModal
  /\ sv' = [sv EXCEPT !.showModal = FALSE, !.lastSubmit = ""]
  /\ UNCHANGED <<lastRequest, pv, bell>>
  /\ SessionUnchanged

\* the toast's onClose
DismissSalesToast ==
  /\ sv.mounted
  /\ sv.toast # NULL
  /\ sv' = [sv EXCEPT !.toast = NULL]
  /\ UNCHANGED <<lastRequest, pv, bell>>
  /\ SessionUnchanged

\* SaleModal.handleSubmit: without an item that has a product, the alert;
\* otherwise setLoading(true) and handleCreateSale up to its first await
SubmitSale ==
  /\ sv.mounted
  /\ sv.showModal
  /\ ~sv.modal.loading
  /\ sv.pc = "idle"
  /\ IF sv.modal.items = "no product"
     THEN /\ sv' = [sv EXCEPT !.lastSubmit = "alert"]
          /\ UNCHANGED lastRequest
     ELSE /\ sv' = [sv EXCEPT !.modal.loading = TRUE, !.pc = "awaitCreate",
                              !.lastSubmit = "sent"]
          /\ lastRequest' = ViewRequest("/sales/")
  /\ UNCHANGED <<pv, bell>>
  /\ SessionUnchanged

\* the message of the error toast of handleCreateSale: error.response is
\* not set by the gateway, so the detail is never found
createSaleToast(err) ==
  IF errorResponse(err) # ABSENT
  THEN OrElse(err.data.detail, "Failed to create sale")
  ELSE "Failed to create sale"

\* how the promise of handleCreateSale settles when its try block threw:
\* the catch block shows a toast and does not rethrow
handleCreateSaleCatch(err) == "resolved"

\* the rest of SaleModal.handleSubmit once onSave has settled: onClose(),
\* or only the log of its catch block; then setLoading(false)
saleSubmitRest(view, onSave) ==
  IF onSave = "resolved"
  THEN [view EXCEPT !.showModal = FALSE, !.modal = NewSaleModal]
  ELSE [view EXCEPT !.modal.loading = FALSE]

\* POST /sales/ settles: the error toast and the modal continues, or the
\* success toast and the refresh for the selected day is handed to fetch
CreateSaleResponse ==
  /\ sv.mounted
  /\ sv.pc = "awaitCreate"
  /\ \E resp \in CreateSaleResponses :
       LET out == request(resp) IN
       IF out.settled = "rejected"
       THEN /\ sv' = [saleSubmitRest(
                        [sv EXCEPT !.toast = createSaleToast(out)],
                        handleCreateSaleCatch(out))
                      EXCEPT !.pc = "idle", !.lastCreate = "rejected"]
            /\ UNCHANGED lastRequest
       ELSE /\ sv' = [sv EXCEPT !.toast = "Sale created successfully",
                                !.pc = "awaitRefresh",
                                !.lastCreate = "created"]
            /\ lastRequest' = ViewRequest("/sales/by_date/?date=")
  /\ UNCHANGED <<pv, bell>>
  /\ SessionUnchanged

\* the refresh of handleCreateSale settles: setSales, setTotal and
\* setShowModal(false), or the catch block; then the modal continues
CreateSaleRefreshed ==
  /\ sv.mounted
  /\ sv.pc = "awaitRefresh"
  /\ \E resp \in SalesResponses(sv.selectedDate) :
       LET out == request(resp) IN
       IF salesLoaded(out)
       THEN sv' = [saleSubmitRest(
                     [sv EXCEPT !.sales = out.data.sales,
                                !.total = out.data.total,
                                !.shownFor = sv.selectedDate,
                                !.showModal = FALSE],
                     "resolved")
                   EXCEPT !.pc = "idle"]
       ELSE sv' = [saleSubmitRest(
                     [sv EXCEPT !.toast = createSaleToast(out)],
                     handleCreateSaleCatch(out))
                   EXCEPT !.pc = "idle"]
  /\ UNCHANGED <<lastRequest, pv, bell>>
  /\ SessionUnchanged

NextSales ==
  \/ InitialLoaded
  \/ SelectDate
  \/ SalesLoaded
  \/ OpenSaleModal
  \/ SelectSaleProduct
  \/ CloseSaleModal
  \/ DismissSalesToast
  \/ SubmitSale
  \/ CreateSaleResponse
  \/ CreateSaleRefreshed

SpecSales == InitSales /\ [][NextSales]_vars

\* the same with the effect guaranteed to run once the provider is mounted
SpecLive == Spec /\ WF_vars(InitAuthStart)

\* the same where, besides, the profile request of the restore completes
SpecRestore == Spec /\ WF_vars(InitAuthStart) /\ WF_vars(InitAuthUser)

\* ================================================================== claims
\* a login (register) call has just settled for its caller
LoginSettled(how) == lastEvent.op = "login" /\ lastEvent.settled = how
RegisterSettled(how) == lastEvent.op = "register" /\ lastEvent.settled = how

\* the call that just settled was made in the state Anonymous and no other
\* login, register or logout ran while it was pending
Undisturbed == lastEvent.anon /\ ~lastEvent.overlapped

\* C1: whenever a login call fails, the store remains Anonymous (nothing
\* persisted under accessToken, isAuthenticated false, no user) and the
\* error reaches the caller.  Stated for calls made in Anonymous that no
\* other operation overlapped.
C1_FailedLoginStaysAnonymous ==
  (LoginSettled("rejected") /\ Undisturbed)
    => (Anonymous /\ lastEvent.error # "")

C3_ResolvedLoginIsAuthenticated ==
  (LoginSettled("resolved") /\ Undisturbed)
    => (isAuthenticated /\ Truthy(user))

\* C4: a login or register response with neither a truthy token nor a
\* truthy access is not an authentication success: the call does not
\* resolve, the store does not become Authenticated and no profile is
\* installed.  Stated for calls made in Anonymous that nothing overlapped.
C4_OtherShapesAreNotSuccess ==
  (/\ lastEvent.op \in {"login", "register"}
   /\ lastEvent.settled \in {"resolved", "rejected"}
   /\ ~Truthy(lastEvent.cred)
   /\ Undisturbed)
    => (lastEvent.settled = "rejected" /\ ~isAuthenticated /\ ~Truthy(user))

\* C5: in every reachable state the profile is present only if the primary
\* credential is present, in memory and persisted.
C5_UserOnlyWithCredential ==
  Truthy(user) => (Truthy(accessToken) /\ Truthy(lsAccess))

\* C6: a credential was persisted at startup and the profile fetch failed:
\* initAuth completes normally, the store is Anonymous, both keys are
\* removed and the credential, refresh string and user in memory are cleared.
C6_FailedRestoreClears ==
  (/\ lastEvent.op = "initAuth"
   /\ lastEvent.settled # "pending"
   /\ lastEvent.error # "")
    => /\ Truthy(initAuth.storedAccessToken)
       /\ lastEvent.settled = "resolved"
       /\ initAuth.pc = "done"
       /\ Anonymous
       /\ lsAccess = NULL
       /\ lsRefresh = NULL
       /\ accessToken = NULL
       /\ refreshToken = NULL
       /\ user = NULL

\* C6 witness: A1/R1 were persisted and the profile request failed
C6_Witness ==
  /\ lastEvent.op = "initAuth"
  /\ lastEvent.error = NETWORK_ERROR
  /\ initAuth.storedAccessToken = "A1"
  /\ initAuth.storedRefreshToken = "R1"
  /\ lsRefresh = NULL

\* no credential was persisted when the provider was mounted
StartedWithoutCredential ==
  initAuth.pc # "start" /\ ~Truthy(initAuth.storedAccessToken)

\* C7: without a persisted primary credential at startup the store reaches
\* Anonymous, and initialization hands no request to fetch: initAuth never
\* issues one, and none has been issued when it completes.
C7_NoCredentialNoProfileRequest ==
  /\ [](StartedWithoutCredential
          => /\ initAuth.pc = "done"
             /\ lastRequest.by # "initAuth"
             /\ (lastEvent.op = "initAuth"
                   => (Anonymous /\ lastRequest = NoRequest)))
  /\ ((initAuth.pc = "start" /\ ~Truthy(lsAccess))
        ~> (initAuth.pc = "done" /\ ~loading))

\* C7 witness: initialization finished without a credential
C7_Witness ==
  /\ lastEvent.op = "initAuth"
  /\ lastEvent.settled = "resolved"
  /\ initAuth.storedAccessToken = NULL
  /\ Anonymous

\* C8: logout leaves both persisted keys absent, the profile absent and
\* isAuthenticated false, whatever the state it ran in.
C8_LogoutClears ==
  lastEvent.op = "logout"
    => /\ lsAccess = NULL
       /\ lsRefresh = NULL
       /\ ~Truthy(user)
       /\ ~isAuthenticated

\* C8 witness: logout ran right after a login resolved, or while a call was
\* pending
C8_Witness ==
  /\ lastEvent.op = "logout"
  /\ lastEvent.after = "login:resolved"
  /\ AnyPending

\* C9: logout is synchronous (no request is issued, no call is suspended or
\* resumed), it can run and returns normally in every state in which the
\* provider exposes it, and a second logout changes nothing.
C9_LogoutSynchronousIdempotent ==
  [][/\ (~loading => ENABLED Logout)
     /\ (lastEvent'.op = "logout"
           => /\ lastEvent'.settled = "returned"
              /\ lastRequest' = lastRequest
              /\ calls' = calls
              /\ logoutState(session') = session')
     /\ ((lastEvent.op = "logout" /\ lastEvent'.op = "logout")
           => session' = session)]_vars

\* C9 witness: two logout calls in a row
C9_Witness ==
  /\ lastEvent.op = "logout"
  /\ lastEvent.after = "logout:returned"

\* C10: register received {token: t, user: u}: exactly t is persisted and
\* installed as the primary credential, exactly u as the profile, and the
\* step hands no request to fetch.
C10_RegisterInstallsResponse ==
  [][(/\ lastEvent'.op = "register"
      /\ lastEvent'.settled = "resolved"
      /\ lastEvent' # lastEvent
      /\ Truthy(lastEvent'.cred)
      /\ Truthy(lastEvent'.usr))
       => /\ lsAccess' = lastEvent'.cred
          /\ accessToken' = lastEvent'.cred
          /\ user' = lastEvent'.usr
          /\ lastRequest' = lastRequest
          /\ lastRequest'.endpoint # "/user/" \/ lastRequest'.by # "register"]_vars

\* C10 witness: register resolved with {token: "T1", user: "U2"}
C10_Witness ==
  /\ RegisterSettled("resolved")
  /\ lastEvent.cred = "T1"
  /\ lastEvent.usr = "U2"
  /\ lsAccess = "T1"
  /\ user = "U2"

\* login has just stored what the response of POST /login/ carried
LoginStored == lastEvent.op = "login" /\ lastEvent.settled = "fetching"

\* the response is an authentication success
HasCredential(response) ==
  response.json = "object" /\ (Truthy(response.token) \/ Truthy(response.access))

\* C11 as stated: for every login response that is an authentication
\* success the persisted primary credential is the response's token or
\* access value, and a refresh value in the response is persisted as
\* refreshToken, also when the credential came in the token field.
C11_LoginPersistsRefresh ==
  (LoginStored /\ HasCredential(lastEvent.response))
    => /\ lsAccess \in ({lastEvent.response.token, lastEvent.response.access}
                          \ {ABSENT})
       /\ (Truthy(lastEvent.response.refresh)
             => lsRefresh = lastEvent.response.refresh)

\* C11 amended: the refresh value is persisted whenever the credential is
\* taken from the access field (no truthy token in the response); with a
\* token the credential persisted is the token.
C11_LoginPersistsRefreshWithAccess ==
  (LoginStored /\ HasCredential(lastEvent.response))
    => /\ lsAccess = IF Truthy(lastEvent.response.token)
                     THEN lastEvent.response.token
                     ELSE lastEvent.response.access
       /\ accessToken = lsAccess
       /\ ((~Truthy(lastEvent.response.token)
            /\ Truthy(lastEvent.response.refresh))
             => /\ lsRefresh = lastEvent.response.refresh
                /\ refreshToken = lastEvent.response.refresh)

\* C11 witness: login stored the pair of {access: "A1", refresh: "R1"}
C11_Witness ==
  /\ LoginStored
  /\ lastEvent.response.access = "A1"
  /\ lastEvent.response.refresh = "R1"
  /\ ~Truthy(lastEvent.response.token)
  /\ lsAccess = "A1"
  /\ lsRefresh = "R1"

\* C12: after login or register stored the credential of a response, a
\* persisted refreshToken is the refresh value of that same response.
\* Stated for calls that no other call or logout overlapped.
C12_RefreshFromSameResponse ==
  (/\ LoginStored \/ RegisterSettled("resolved")
   /\ Truthy(lastEvent.cred)
   /\ ~lastEvent.overlapped)
    => (lsRefresh = NULL \/ lsRefresh = lastEvent.response.refresh)

\* ------------------------------------------------- claims about the gateway
\* a call made on the gateway has settled; through request, for every
\* method but the file upload
GwSettled == gw.pc = "settled"
GwRequestSettled == GwSettled /\ gw.op # "importProductsCSV"

\* fetch delivered a response with a non-success status
GwHttpError == gw.resp.transport = "ok" /\ gw.resp.status \notin 200..299

\* the body fetch delivered was empty or not JSON
GwParseFailed == gw.resp.transport = "ok" /\ gw.resp.body.json = "invalid"

GenericMessage(status) ==
  CASE status = 400 -> "Request failed with status 400"
    [] status = 401 -> "Request failed with status 401"
    [] status = 500 -> "Request failed with status 500"
    [] OTHER -> "Request failed with status ?"

\* C13: for every non-success HTTP response, request rejects with an error
\* whose message is the body's message when it has one, otherwise the body's
\* detail when it has one, otherwise "Request failed with status N" for the
\* HTTP status N.  A field has a value when it is a non-empty string.
C13_ErrorMessagePriority ==
  (GwRequestSettled /\ GwHttpError)
    => /\ gw.out.settled = "rejected"
       /\ gw.out.message =
            IF Truthy(gw.resp.body.message) THEN gw.resp.body.message
            ELSE IF Truthy(gw.resp.body.detail) THEN gw.resp.body.detail
            ELSE GenericMessage(gw.resp.status)

\* C13 witness: {detail: "Invalid SKU"} with 400 rejected as "Invalid SKU"
C13_Witness ==
  /\ GwRequestSettled
  /\ gw.resp.status = 400
  /\ gw.resp.body.detail = "Invalid SKU"
  /\ gw.resp.body.message = ABSENT
  /\ gw.out.settled = "rejected"
  /\ gw.out.message = "Invalid SKU"

\* C14: for every non-success HTTP response, the error carries the body's
\* status_code when the backend supplies one and otherwise the HTTP status,
\* and carries the parsed body as its data, null when the body did not parse.
C14_ErrorStatusAndData ==
  (GwRequestSettled /\ GwHttpError)
    => /\ gw.out.settled = "rejected"
       /\ gw.out.status = IF gw.resp.body.status_code # 0
                          THEN gw.resp.body.status_code
                          ELSE gw.resp.status
       /\ gw.out.data = IF GwParseFailed THEN NullBody ELSE gw.resp.body

\* C14 witness: a 400 whose body says status_code 422 rejected with 422
C14_Witness ==
  /\ GwRequestSettled
  /\ gw.resp.status = 400
  /\ gw.resp.body.status_code = 422
  /\ gw.out.settled = "rejected"
  /\ gw.out.status = 422
  /\ gw.out.data = gw.resp.body

\* C15: every failed call, a non-success response or a transport failure,
\* rejects, and the error it rejects with carries a message, a status and a
\* data payload.
C15_EveryFailureNormalized ==
  GwSettled =>
    /\ (gw.resp.transport = "fail" \/ GwHttpError) => gw.out.settled = "rejected"
    /\ gw.out.settled = "rejected"
         => /\ gw.out.message # ""
            /\ gw.out.status # NoStatus
            /\ gw.out.data # UndefinedData

\* C16: on a transport failure the call rejects with the fixed network
\* message; a non-success HTTP response is never given that message.
C16_NetworkMessageOnlyForTransport ==
  GwSettled =>
    /\ gw.resp.transport = "fail"
         => /\ gw.out.settled = "rejected"
            /\ gw.out.message =
                 "Network error. Please check your internet connection."
    /\ GwHttpError
         => /\ gw.out.settled = "rejected"
            /\ gw.out.message #
                 "Network error. Please check your internet connection."
            /\ Truthy(gw.resp.body.message)
                 => gw.out.message = gw.resp.body.message

\* C16 witness: one call failed in transport, got the fixed message
C16_Witness ==
  /\ GwSettled
  /\ gw.resp.transport = "fail"
  /\ gw.out.settled = "rejected"
  /\ gw.out.message = NETWORK_ERROR

\* C17: whenever a request is handed to fetch, a login or register request
\* carries no Authorization header, and any other request carries
\* "Token <c>" exactly when a credential c is persisted at that time.
C17_AuthorizationHeader ==
  [][lastRequest' # lastRequest
       => IF lastRequest'.endpoint \in {"/login/", "/register/"}
          THEN lastRequest'.headers.Authorization = NoHeader
          ELSE lastRequest'.headers.Authorization =
                 IF lsAccess' # NULL THEN "Token " \o lsAccess' ELSE NoHeader]_vars

\* C18: a body that does not parse never fails a call by itself: with a
\* success status request resolves with null, with a non-success status it
\* rejects with the generic message and the HTTP status, not a parse error.
C18_UnparseableBodyIsNoData ==
  (GwRequestSettled /\ GwParseFailed)
    => IF gw.resp.status \in 200..299
       THEN gw.out.settled = "resolved" /\ gw.out.data = NullBody
       ELSE /\ gw.out.settled = "rejected"
            /\ gw.out.name = "Error"
            /\ gw.out.message = GenericMessage(gw.resp.status)
            /\ gw.out.status = gw.resp.status

\* C18 witness: a 200 with an empty body resolved with null
C18_Witness ==
  /\ GwRequestSettled
  /\ GwParseFailed
  /\ gw.resp.status = 200
  /\ gw.out.settled = "resolved"
  /\ gw.out.data = NullBody

\* C19: importProductsCSV settles as request would for the same response,
\* with the same message, status and data, and its request differs from a
\* request's only in having no Content-Type header.
C19_ImportSettlesAsRequest ==
  (GwSettled /\ gw.op = "importProductsCSV")
    => /\ gw.out.settled = request(gw.resp).settled
       /\ gw.out.message = request(gw.resp).message
       /\ gw.out.status = request(gw.resp).status
       /\ gw.out.data = request(gw.resp).data
       /\ lastRequest.headers.ContentType = NoHeader
       /\ lastRequest.headers.Authorization =
            requestHeaders(NoOptionHeaders, lsAccess).Authorization

\* C20: no step of a gateway call, whether it succeeds or fails, changes
\* the persisted accessToken / refreshToken or the provider's user,
\* accessToken and refreshToken.
C20_GatewayLeavesSession ==
  [][UNCHANGED <<lsAccess, lsRefresh, user, accessToken, refreshToken>>]_vars

\* C20 witness: a call was rejected with 401 and the credential it was sent
\* with is still persisted
C20_Witness ==
  /\ GwSettled
  /\ gw.resp.transport = "ok"
  /\ gw.resp.status = 401
  /\ gw.out.settled = "rejected"
  /\ lsAccess = "A1"
  /\ lastRequest.headers.Authorization = "Token A1"

\* --------------------------------------------------- claims about the views
\* C21: when a create or update call fails with field errors of the backend
\* (a duplicate SKU), the product form that made the call, if the user has
\* not cancelled it, stays open and shows an error taken from the field
\* error.
C21_FieldErrorShownInForm ==
  [][(/\ pv.pc = "awaitSave"
      /\ pv.showModal
      /\ pv'.pc = "idle"
      /\ pv'.lastSave.settled = "rejected"
      /\ Truthy(pv'.lastSave.data.sku))
       => /\ pv'.showModal
          /\ Truthy(pv'.modal.error)]_vars

\* C22: when login calls overlapped and the last of them has completed by
\* installing the profile it fetched, the persisted credential, the
\* provider's credential and the profile agree: the credential persisted is
\* the one that call stored and sent with its profile request.
C22_OverlappingLoginsConsistent ==
  (/\ LoginSettled("resolved")
   /\ lastEvent.overlapped
   /\ Truthy(lastEvent.cred)
   /\ ~AnyPending)
    => /\ accessToken = lsAccess
       /\ lsAccess = lastEvent.cred
       /\ user = lastEvent.usr

\* the restore found a credential and its profile request has just settled
RestoreSettled ==
  /\ lastEvent.op = "initAuth"
  /\ lastEvent.settled = "resolved"
  /\ hasStoredCredential(initAuth.storedAccessToken)

\* C23: a provider that starts with a persisted credential leaves
\* Initializing once the profile request completes; it is then Authenticated
\* with the fetched profile if the request succeeded and Anonymous if it
\* failed; and as long as it is Initializing no login, register or logout
\* has been invoked.
C23_RestoreCompletes ==
  /\ [](RestoreSettled
         => /\ ~loading
            /\ IF lastEvent.error = ""
               THEN /\ isAuthenticated
                    /\ accessToken = initAuth.storedAccessToken
                    /\ lsAccess = initAuth.storedAccessToken
                    /\ user = lastEvent.usr
               ELSE Anonymous)
  /\ [](loading => /\ ~AnyPending
                   /\ lastEvent.op \in {"none", "initAuth"}
                   /\ user = NULL)
  /\ ((loading /\ hasStoredCredential(lsAccess)) ~> ~loading)

\* C23 witness: the restore of credential A1 fetched profile U1
C23_Witness ==
  /\ RestoreSettled
  /\ lastEvent.error = ""
  /\ ~loading
  /\ accessToken = "A1"
  /\ lsAccess = "A1"
  /\ user = "U1"

\* C24: when the step that follows a logout is the arrival of a response
\* for a login or register that was in flight when logout ran (no call has
\* been invoked since), the session is still Anonymous after it.
C24_InFlightCallAfterLogout ==
  [][(/\ lastEvent.op = "logout"
      /\ lastEvent'.op \in {"login", "register"}
      /\ lastEvent'.settled # "pending")
       => Anonymous']_vars

\* C25: wherever control returns to the event loop, the provider's
\* accessToken equals the value persisted under accessToken, and
\* isAuthenticated is true exactly when the gateway attaches Authorization.
C25_StateEqualsStorage ==
  /\ accessToken = lsAccess
  /\ isAuthenticated <=> (getHeaders(TRUE, lsAccess).Authorization # NoHeader)

\* the first n entries of a list
FirstOf(l, n) == [i \in 1..(IF Len(l) < n THEN Len(l) ELSE n) |-> l[i]]

\* C26: the bell displays at most 5 alerts, and they are the first five of
\* the response loaded last (none before any has loaded), with the counts
\* of that response; a poll that fails leaves alerts and both counts as
\* they were.
C26_BellShowsFirstFive ==
  /\ [](/\ Len(bell.alerts) <= 5
        /\ IF bell.lastLoaded = NoResponse
           THEN bell.alerts = <<>>
           ELSE /\ bell.alerts = FirstOf(bell.lastLoaded.alerts, 5)
                /\ bell.unreadCount = bell.lastLoaded.unread_count
                /\ bell.criticalCount = bell.lastLoaded.critical_count)
  /\ [][bell'.lastPoll = "failed"
          => /\ bell'.alerts = bell.alerts
             /\ bell'.unreadCount = bell.unreadCount
             /\ bell'.criticalCount = bell.criticalCount]_vars

\* C26 witness: a response with more than five alerts is displayed cut to
\* five, and a later poll has failed
C26_Witness ==
  /\ Len(bell.lastLoaded.alerts) > 5
  /\ Len(bell.alerts) = 5
  /\ bell.unreadCount = 3
  /\ bell.lastPoll = "failed"

\* C27: whenever no sales fetch is in flight, the sales and total displayed
\* are those returned for the selected day; and once the response for the
\* selected day is displayed, the response of a fetch made for an earlier
\* selection does not replace it.
C27_SalesOfSelectedDate ==
  /\ []((~SalesFetchInFlight /\ sv.pc # "awaitRefresh")
          => sv.shownFor = sv.selectedDate)
  /\ [][(/\ BagCardinality(sv'.fetches) < BagCardinality(sv.fetches)
         /\ sv.shownFor = sv.selectedDate)
          => sv'.shownFor = sv.selectedDate]_vars

\* C28: loading is true whenever the initial fetch or a sales-by-date fetch
\* of the view is in flight.
C28_LoadingWhileFetching == AnyFetchInFlight => sv.loading

\* C29: when createSale fails, the modal that submitted it stays open with
\* its items; and a submit without an item that has a product sends no
\* request and leaves the modal open.
C29_ModalClosedOnlyWhenCreated ==
  [][/\ (sv.pc = "awaitCreate" /\ sv.showModal /\ sv'.lastCreate = "rejected")
          => /\ sv'.showModal
             /\ sv'.modal.items = sv.modal.items
     /\ (sv.lastSubmit # "alert" /\ sv'.lastSubmit = "alert")
          => /\ sv'.showModal
             /\ sv'.pc = "idle"
             /\ lastRequest' = lastRequest]_vars

\* C30: when handleCreateSale ends with the toast "Failed to create sale",
\* it is the createSale request that failed, not the refresh after it.
C30_CreateErrorOnlyForCreate ==
  [][(/\ sv.pc # "idle"
      /\ sv'.pc = "idle"
      /\ sv'.toast = "Failed to create sale")
       => /\ sv.pc = "awaitCreate"
          /\ sv'.lastCreate = "rejected"]_vars
====
